---- MODULE Spec2Model ----
(***************************************************************************)
(* Postport: the single-page travel assistant of src/routes/+page.svelte.  *)
(* The model has three parts: the chat pipeline (sendMessage, the response *)
(* splitter and the field normalizer), the screen router, and the map pane *)
(* (script loader, map initialisation, marker refresh).                    *)
(*                                                                         *)
(* One action is one browser task: a click, a form submission, the         *)
(* settling of a network promise, the load or error event of the script.   *)
(* The microtasks a task leaves behind (the component flush, tick()        *)
(* callbacks, await continuations) run to completion before the next task, *)
(* in a fixed order, so they are part of the action that queued them.      *)
(*                                                                         *)
(* Text is a sequence of tokens.  A token is a word, a whitespace          *)
(* character, the three-backtick fence, the tag word json, or a JSON       *)
(* token: a bracket, a comma, a scalar literal or an object literal.       *)
(***************************************************************************)
EXTENDS Integers, Sequences, FiniteSets, TLC

VARIABLES
    currentScreen,   \* 'home' | 'chat' | 'map' | 'planner'
    chatInput,       \* text of the chat input box
    chatMessages,    \* the transcript
    isLoading,       \* the loading indicator of the chat pane
    calls,           \* the calls of sendMessage that are suspended at an await
    fetchCount,      \* number of fetch() calls made so far
    data,            \* the local data of the sendMessage call resumed in the task
                     \* that ran last: what res.json() resolved with, or NoData
    map,             \* 0 (undefined) or the index in maps of the current map instance
    mapElement,      \* 0 (null) or the index of the mounted map <div>
    mapPins,         \* the pin list
    mapMarkers,      \* the component's list of marker objects
    mapInitialized,  \* the map-initialisation flag
    maps,            \* every map instance constructed so far: the <div> it was given
    attached,        \* the markers that are currently attached to some map instance
    mounts,          \* number of map <div> elements created so far
    scripts,         \* number of <script data-google-maps> elements in the document
    scriptState,     \* "none" | "loading" | "loaded" | "failed": the injected script
    google,          \* window.google.maps is defined
    gmapsLoaded,     \* window.gmapsLoaded
    listeners,       \* number of 'gmaps:loaded' listeners whose promise is pending
    loadPending,     \* the promise of the call that injected the script is pending
    loaderCalls,     \* number of calls of loadGoogleMaps so far
    rejections       \* number of unhandled promise rejections so far

vars == <<currentScreen, chatInput, chatMessages, isLoading, calls, fetchCount, data,
          map, mapElement, mapPins, mapMarkers, mapInitialized, maps, attached,
          mounts, scripts, scriptState, google, gmapsLoaded, listeners,
          loadPending, loaderCalls, rejections>>

chatVars == <<chatInput, chatMessages, isLoading, calls, fetchCount, data, mapPins>>

mapVars == <<map, mapElement, mapMarkers, mapInitialized, maps, attached, mounts,
             scripts, scriptState, google, gmapsLoaded, listeners, loadPending,
             loaderCalls, rejections>>

----------------------------------------------------------------------------
(* Bounds of the model *)

\* non-blank submissions per page lifetime, in the chat pane explored alone
MaxTurns == 2
\* non-blank submissions per page lifetime, in the whole page
MaxPageTurns == 1
\* calls of sendMessage suspended at the same time
MaxInFlight == 2
\* times the map screen is entered per page lifetime
MaxMapEntries == 2

----------------------------------------------------------------------------
(* JavaScript values *)

Undefined == [t |-> "undefined", n |-> 0, s |-> ""]
Null == [t |-> "null", n |-> 0, s |-> ""]
Num(n) == [t |-> "number", n |-> n, s |-> ""]
Str(s) == [t |-> "string", n |-> 0, s |-> s]

\* ToBoolean(v) of a scalar
Truthy(v) ==
    /\ v.t \notin {"undefined", "null"}
    /\ ~(v.t = "number" /\ v.n = 0)
    /\ ~(v.t = "string" /\ v.s = "")

\* a ?? b
Coalesce(a, b) == IF a.t \in {"undefined", "null"} THEN b ELSE a

\* a || b
OrElse(a, b) == IF Truthy(a) THEN a ELSE b

Obj(lat, lng, label, latitude, longitude, name, icon, description) ==
    [t |-> "object", lat |-> lat, lng |-> lng, label |-> label,
     latitude |-> latitude, longitude |-> longitude, name |-> name,
     icon |-> icon, description |-> description]

\* an object written with the short keys, and with the long keys
Short(lat, lng, label) ==
    Obj(lat, lng, label, Undefined, Undefined, Undefined, Undefined, Undefined)
Long(lat, lng, label) ==
    Obj(Undefined, Undefined, Undefined, lat, lng, label, Undefined, Undefined)

\* obj?.key for an array element that may be undefined, null or a number
Field(elem, key) ==
    IF elem.t = "object" THEN elem[key] ELSE Undefined

----------------------------------------------------------------------------
(* Text *)

\* the three-backtick fence (a backtick cannot be written in a TLA+ string)
Fence == "'''"
Tag == "json"
IsSpace(c) == c \in {" ", "\n"}

Min(S) == CHOOSE x \in S : \A y \in S : x <= y
Max(S) == CHOOSE x \in S : \A y \in S : x >= y

\* String.prototype.trim
Trim(text) ==
    LET inked == {i \in 1..Len(text) : ~IsSpace(text[i])}
    IN  IF inked = {} THEN <<>> ELSE SubSeq(text, Min(inked), Max(inked))

\* the text with the tokens from..to cut out
Cut(text, from, to) == SubSeq(text, 1, from - 1) \o SubSeq(text, to + 1, Len(text))

----------------------------------------------------------------------------
(* JSON.parse *)

\* the object literals that occur in the responses of the model
ObjectTokens ==
    {"{lat:1,lng:2,label:A}", "{lat:3,lng:4,label:B}", "{lat:0,lng:2,label:A}",
     "{lat:1,lng:0,label:A}", "{latitude:1,longitude:2,name:A}",
     "{latitude:0,longitude:2,name:A}", "{lat:1,label:A}", "{label:A}",
     "{lat:1,longitude:2,label:A}", "{lat:1,lng:2}",
     "{lat:1,lng:2,label:A,icon:i,description:d}"}

ObjectOf(tok) ==
    CASE tok = "{lat:1,lng:2,label:A}" -> Short(Num(1), Num(2), Str("A"))
      [] tok = "{lat:3,lng:4,label:B}" -> Short(Num(3), Num(4), Str("B"))
      [] tok = "{lat:0,lng:2,label:A}" -> Short(Num(0), Num(2), Str("A"))
      [] tok = "{lat:1,lng:0,label:A}" -> Short(Num(1), Num(0), Str("A"))
      [] tok = "{latitude:1,longitude:2,name:A}" -> Long(Num(1), Num(2), Str("A"))
      [] tok = "{latitude:0,longitude:2,name:A}" -> Long(Num(0), Num(2), Str("A"))
      [] tok = "{lat:1,label:A}" -> Short(Num(1), Undefined, Str("A"))
      [] tok = "{label:A}" -> Short(Undefined, Undefined, Str("A"))
      [] tok = "{lat:1,longitude:2,label:A}" ->
            Obj(Num(1), Undefined, Str("A"), Undefined, Num(2), Undefined,
                Undefined, Undefined)
      [] tok = "{lat:1,lng:2}" -> Short(Num(1), Num(2), Undefined)
      [] tok = "{lat:1,lng:2,label:A,icon:i,description:d}" ->
            Obj(Num(1), Num(2), Str("A"), Undefined, Undefined, Undefined,
                Str("i"), Str("d"))

ScalarTokens == {"null", "7"}

\* the value a single-token JSON text denotes
ValueOf(tok) ==
    IF tok \in ObjectTokens THEN ObjectOf(tok)
    ELSE IF tok = "7" THEN Num(7)
    ELSE Null

IsValueToken(tok) == tok \in ObjectTokens \cup ScalarTokens

\* JSON.parse(text): [ok |-> FALSE] is a SyntaxError.  Whitespace between
\* tokens is insignificant; a value is a scalar, an object, or a bracketed,
\* comma-separated list of scalars and objects.
JSONParse(text) ==
    LET s == SelectSeq(text, LAMBDA c : ~IsSpace(c))
        n == Len(s)
        failure == [ok |-> FALSE, isArray |-> FALSE, items |-> <<>>, value |-> Undefined]
    IN  IF n = 1 /\ IsValueToken(s[1])
        THEN [ok |-> TRUE, isArray |-> FALSE, items |-> <<>>, value |-> ValueOf(s[1])]
        ELSE IF n = 2 /\ s[1] = "[" /\ s[2] = "]"
        THEN [ok |-> TRUE, isArray |-> TRUE, items |-> <<>>, value |-> Undefined]
        ELSE IF /\ n >= 3 /\ n % 2 = 1
                /\ s[1] = "[" /\ s[n] = "]"
                /\ \A i \in 2..(n - 1) :
                      IF i % 2 = 0 THEN IsValueToken(s[i]) ELSE s[i] = ","
        THEN [ok |-> TRUE, isArray |-> TRUE,
              items |-> [k \in 1..((n - 1) \div 2) |-> ValueOf(s[2 * k])],
              value |-> Undefined]
        ELSE failure

----------------------------------------------------------------------------
(* The response splitter: codeBlockRegex, text.match, text.replace *)

\* a regex that takes any fence for the opening one
OpensAtAnyFence(text, i) ==
    /\ i + 1 <= Len(text)
    /\ text[i] = Fence

\* the regex can start a match at token i: the fence directly followed by json
OpensAt(text, i) ==
    /\ i + 1 <= Len(text)
    /\ text[i] = Fence
    /\ text[i + 1] = Tag

\* [\s\r\n]* is greedy: the capture group starts after the whitespace that
\* follows the tag
GroupStart(text, i) ==
    Min({k \in (i + 2)..(Len(text) + 1) :
            \A h \in (i + 2)..(k - 1) : IsSpace(text[h])} \ 
        {k \in (i + 2)..Len(text) : IsSpace(text[k])})

\* ([\s\S]*?) is lazy: the match ends at the first fence at or after the group
ClosingFences(text, i) ==
    {j \in GroupStart(text, i)..Len(text) : text[j] = Fence}

\* a match whose group is greedy and runs to the last fence
RegexMatchGreedy(text) ==
    LET starts == {i \in 1..Len(text) :
                      OpensAt(text, i) /\ ClosingFences(text, i) # {}}
    IN  IF starts = {}
        THEN [found |-> FALSE, from |-> 0, to |-> 0, group |-> <<>>]
        ELSE LET i == Min(starts)
                 j == Max(ClosingFences(text, i))
             IN  [found |-> TRUE, from |-> i, to |-> j,
                  group |-> SubSeq(text, GroupStart(text, i), j - 1)]

\* text.match(codeBlockRegex): the leftmost match, its span and its group 1
RegexMatch(text) ==
    LET starts == {i \in 1..Len(text) :
                      OpensAt(text, i) /\ ClosingFences(text, i) # {}}
    IN  IF starts = {}
        THEN [found |-> FALSE, from |-> 0, to |-> 0, group |-> <<>>]
        ELSE LET i == Min(starts)
                 j == Min(ClosingFences(text, i))
             IN  [found |-> TRUE, from |-> i, to |-> j,
                  group |-> SubSeq(text, GroupStart(text, i), j - 1)]

\* markdownPart
MarkdownPart(text) ==
    LET m == RegexMatch(text)
    IN  IF m.found THEN Trim(Cut(text, m.from, m.to)) ELSE text

\* jsonText: <<>> stands for both null and the empty string, which
\* if (jsonText) treats alike
JsonText(text) ==
    LET m == RegexMatch(text)
    IN  IF m.found THEN m.group ELSE <<>>

----------------------------------------------------------------------------
(* The payload guard and the field normalizer *)

\* locations[0]: undefined for an empty array
FirstOf(items) == IF Len(items) = 0 THEN Undefined ELSE items[1]

\* a guard that only asks for an array
PayloadGuardArrayOnly(parsed) == parsed.isArray

\* Array.isArray(locations) && (locations[0]?.lat && locations[0]?.lng ||
\*                              locations[0]?.latitude && locations[0]?.longitude)
PayloadGuard(parsed) ==
    /\ parsed.isArray
    /\ \/ Truthy(Field(FirstOf(parsed.items), "lat")) /\
          Truthy(Field(FirstOf(parsed.items), "lng"))
       \/ Truthy(Field(FirstOf(parsed.items), "latitude")) /\
          Truthy(Field(FirstOf(parsed.items), "longitude"))

\* a map callback that reads the short keys only
ToPinShortKeys(loc) ==
    [lat |-> Field(loc, "lat"), lng |-> Field(loc, "lng"),
     label |-> Field(loc, "label"),
     icon |-> Field(loc, "icon"),
     description |-> Field(loc, "description")]

\* the record the map callback builds from one element
ToPin(loc) ==
    [lat |-> Coalesce(Field(loc, "lat"), Field(loc, "latitude")),
     lng |-> Coalesce(Field(loc, "lng"), Field(loc, "longitude")),
     label |-> Coalesce(Field(loc, "label"), Field(loc, "name")),
     icon |-> Field(loc, "icon"),
     description |-> Field(loc, "description")]

\* reading a property of null is a TypeError; of a number it is undefined
MapThrows(items) == \E k \in 1..Len(items) : items[k].t = "null"

\* lines 49-64: whether the reply's payload is accepted, and the pins it yields
PinsPayload(text) ==
    LET jsonText == JsonText(text)
        parsed == JSONParse(jsonText)
        accepted == /\ jsonText # <<>>
                    /\ parsed.ok
                    /\ PayloadGuard(parsed)
                    /\ ~MapThrows(parsed.items)
    IN  [accepted |-> accepted,
         pins |-> IF accepted
                  THEN [k \in 1..Len(parsed.items) |-> ToPin(parsed.items[k])]
                  ELSE <<>>]

----------------------------------------------------------------------------
(* The component and the page it runs in, as one record, so that the steps *)
(* of one task compose.  queue is the microtask queue, dirty the set of    *)
(* invalidated component variables, flushScheduled the framework's         *)
(* update_scheduled flag; all three are empty between tasks.               *)
(* nullNodeThrows is what the vendor Map constructor does in this task     *)
(* when it is handed null instead of a node.                               *)

\* no response body: the task resumed no sendMessage call past res.json()
NoData == [kind |-> "none", text |-> <<>>]

Snapshot ==
    [currentScreen |-> currentScreen, chatInput |-> chatInput,
     chatMessages |-> chatMessages, isLoading |-> isLoading, calls |-> calls,
     fetchCount |-> fetchCount, data |-> data, map |-> map,
     mapElement |-> mapElement, mapPins |-> mapPins, mapMarkers |-> mapMarkers,
     mapInitialized |-> mapInitialized, maps |-> maps, attached |-> attached,
     mounts |-> mounts, scripts |-> scripts, scriptState |-> scriptState,
     google |-> google, gmapsLoaded |-> gmapsLoaded, listeners |-> listeners,
     loadPending |-> loadPending, loaderCalls |-> loaderCalls,
     rejections |-> rejections, nullNodeThrows |-> FALSE,
     queue |-> <<>>, dirty |-> {}, flushScheduled |-> FALSE]

Commit(m) ==
    /\ currentScreen' = m.currentScreen
    /\ chatInput' = m.chatInput
    /\ chatMessages' = m.chatMessages
    /\ isLoading' = m.isLoading
    /\ calls' = m.calls
    /\ fetchCount' = m.fetchCount
    /\ data' = m.data
    /\ map' = m.map
    /\ mapElement' = m.mapElement
    /\ mapPins' = m.mapPins
    /\ mapMarkers' = m.mapMarkers
    /\ mapInitialized' = m.mapInitialized
    /\ maps' = m.maps
    /\ attached' = m.attached
    /\ mounts' = m.mounts
    /\ scripts' = m.scripts
    /\ scriptState' = m.scriptState
    /\ google' = m.google
    /\ gmapsLoaded' = m.gmapsLoaded
    /\ listeners' = m.listeners
    /\ loadPending' = m.loadPending
    /\ loaderCalls' = m.loaderCalls
    /\ rejections' = m.rejections

\* an assignment to a component variable that changes it: the variable is
\* marked dirty and a flush is scheduled unless one already is
Invalidate(m, name) ==
    [m EXCEPT !.dirty = @ \cup {name},
              !.queue = IF m.flushScheduled THEN @ ELSE Append(@, "flush"),
              !.flushScheduled = TRUE]

----------------------------------------------------------------------------
(* Markers *)

\* new google.maps.Marker({position, map, label}) for one pin
Marker(pin, mapId) ==
    [map |-> mapId, lat |-> pin.lat, lng |-> pin.lng,
     label |-> OrElse(pin.label, Undefined)]

\* the sequence without the first occurrence of x
RECURSIVE RemoveOne(_, _)
RemoveOne(seq, x) ==
    IF seq = <<>> THEN <<>>
    ELSE IF Head(seq) = x THEN Tail(seq)
    ELSE <<Head(seq)>> \o RemoveOne(Tail(seq), x)

\* m.setMap(null) on every marker of the list
RECURSIVE DetachAll(_, _)
DetachAll(onMaps, markers) ==
    IF markers = <<>> THEN onMaps
    ELSE DetachAll(RemoveOne(onMaps, Head(markers)), Tail(markers))

\* updateMapPins() that attaches the new markers without detaching the old
UpdateMapPinsKeeping(m) ==
    IF m.map = 0 THEN m
    ELSE LET fresh == [k \in 1..Len(m.mapPins) |-> Marker(m.mapPins[k], m.map)]
         IN  Invalidate([m EXCEPT !.attached = @ \o fresh,
                                  !.mapMarkers = fresh],
                        "mapMarkers")

\* updateMapPins()
UpdateMapPins(m) ==
    IF m.map = 0 THEN m
    ELSE LET fresh == [k \in 1..Len(m.mapPins) |-> Marker(m.mapPins[k], m.map)]
         IN  Invalidate([m EXCEPT !.attached = DetachAll(@, m.mapMarkers) \o fresh,
                                  !.mapMarkers = fresh],
                        "mapMarkers")

----------------------------------------------------------------------------
(* The map script loader and the map initialisation *)

\* loadGoogleMaps() without the check for an injected script
LoadGoogleMapsUnchecked(m) ==
    LET called == [m EXCEPT !.loaderCalls = @ + 1]
    IN  IF m.google
        THEN [called EXCEPT !.queue = Append(@, "continue")]
        ELSE [called EXCEPT !.scripts = @ + 1,
                            !.scriptState = "loading",
                            !.loadPending = TRUE]

\* loadGoogleMaps() that injects the script anew after a failed load
LoadGoogleMapsRetrying(m) ==
    LET called == [m EXCEPT !.loaderCalls = @ + 1]
    IN  IF m.google
        THEN [called EXCEPT !.queue = Append(@, "continue")]
        ELSE IF m.scripts > 0 /\ m.scriptState # "failed"
        THEN IF m.gmapsLoaded
             THEN [called EXCEPT !.queue = Append(@, "continue")]
             ELSE [called EXCEPT !.listeners = @ + 1]
        ELSE [called EXCEPT !.scripts = @ + 1,
                            !.scriptState = "loading",
                            !.loadPending = TRUE]

\* loadGoogleMaps(): the executor of the promise runs synchronously.  A promise
\* that is resolved at once leaves the continuation of the awaiting caller on
\* the microtask queue; otherwise the caller stays suspended on a listener or
\* on the load event of the script it injected.
LoadGoogleMaps(m) ==
    LET called == [m EXCEPT !.loaderCalls = @ + 1]
    IN  IF m.google
        THEN [called EXCEPT !.queue = Append(@, "continue")]
        ELSE IF m.scripts > 0
        THEN IF m.gmapsLoaded
             THEN [called EXCEPT !.queue = Append(@, "continue")]
             ELSE [called EXCEPT !.listeners = @ + 1]
        ELSE [called EXCEPT !.scripts = @ + 1,
                            !.scriptState = "loading",
                            !.loadPending = TRUE]

\* the callback given to tick().then, up to its await
InitCallback(m) ==
    IF m.mapElement # 0 /\ ~m.mapInitialized THEN LoadGoogleMaps(m) ELSE m

\* the rest of the callback, after the await: lines 130-135.  The vendor
\* constructor is not part of the repository and is handed mapElement as it is
\* at that moment; on null it either throws or builds an instance without a
\* node.  A throw rejects the callback's promise, which nobody handles.
InitContinuation(m) ==
    IF m.mapElement = 0 /\ m.nullNodeThrows
    THEN [m EXCEPT !.rejections = @ + 1]
    ELSE LET built == Invalidate([m EXCEPT !.maps = Append(@, m.mapElement),
                                           !.map = Len(m.maps) + 1],
                                 "map")
             marked == UpdateMapPins(built)
         IN  IF marked.mapInitialized THEN marked
             ELSE Invalidate([marked EXCEPT !.mapInitialized = TRUE],
                             "mapInitialized")

----------------------------------------------------------------------------
(* The reactive statements.  A statement runs in a flush when a variable   *)
(* that its text mentions is dirty; a function it calls contributes none.  *)
(* They run in dependency order: the reset, which assigns mapInitialized,  *)
(* before the initialisation, which reads it and assigns map, before the   *)
(* marker refresh, which reads map.                                        *)

\* $: if (currentScreen !== 'map') { mapInitialized = false; }
ResetDeps == {"currentScreen"}
\* the reset left out
ReactiveResetMissing(m) == m
ReactiveReset(m) ==
    IF m.dirty \cap ResetDeps # {} /\ m.currentScreen # "map" /\ m.mapInitialized
    THEN Invalidate([m EXCEPT !.mapInitialized = FALSE], "mapInitialized")
    ELSE m

\* the initialisation statement left out
ReactiveInitMissing(m) == m

\* $: if (currentScreen === 'map' && !mapInitialized) { tick().then(...) }
InitDeps == {"currentScreen", "mapInitialized", "mapElement"}
ReactiveInit(m) ==
    IF m.dirty \cap InitDeps # {} /\ m.currentScreen = "map" /\ ~m.mapInitialized
    THEN [m EXCEPT !.queue = Append(@, "callback")]
    ELSE m

\* $: if (map && currentScreen === 'map') updateMapPins();
RefreshDeps == {"map", "currentScreen"}
ReactiveRefresh(m) ==
    IF m.dirty \cap RefreshDeps # {} /\ m.map # 0 /\ m.currentScreen = "map"
    THEN UpdateMapPins(m)
    ELSE m

\* the component's update function, then the patch of the DOM: the map <div>
\* exists exactly on the map screen, and bind:this assigns mapElement when it
\* is mounted or removed
ComponentUpdate(m) ==
    LET ran == ReactiveRefresh(ReactiveInit(ReactiveReset(m)))
        clean == [ran EXCEPT !.dirty = {}]
    IN  IF clean.currentScreen = "map" /\ clean.mapElement = 0
        THEN Invalidate([clean EXCEPT !.mapElement = clean.mounts + 1,
                                      !.mounts = @ + 1],
                        "mapElement")
        ELSE IF clean.currentScreen # "map" /\ clean.mapElement # 0
        THEN Invalidate([clean EXCEPT !.mapElement = 0], "mapElement")
        ELSE clean

\* flush(): update until nothing is dirty
RECURSIVE FlushLoop(_)
FlushLoop(m) == IF m.dirty = {} THEN m ELSE FlushLoop(ComponentUpdate(m))

Flush(m) == [FlushLoop(m) EXCEPT !.flushScheduled = FALSE]

\* the microtasks of a task, first in first out
RECURSIVE RunQueue(_)
RunQueue(m) ==
    IF m.queue = <<>> THEN m
    ELSE LET job == Head(m.queue)
             rest == [m EXCEPT !.queue = Tail(@)]
         IN  RunQueue(CASE job = "flush" -> Flush(rest)
                        [] job = "callback" -> InitCallback(rest)
                        [] job = "continue" -> InitContinuation(rest))

----------------------------------------------------------------------------
(* The chat pipeline: sendMessage *)

UserMessage(content) == [role |-> "user", content |-> content, markdown |-> FALSE]
\* markdown |-> FALSE stands for the field being absent
AssistantMessage(content, markdown) ==
    [role |-> "assistant", content |-> content, markdown |-> markdown]

ErrorText == <<"[Error contacting Gemini API]">>
NoResponseText == <<"[No response]">>

InFlight(m) == m.calls.fetch + m.calls.json

\* sendMessage() with the guard !chatInput, without trim()
SendMessageUntrimmed(m) ==
    IF m.chatInput = <<>> THEN m
    ELSE [Invalidate([m EXCEPT !.chatMessages = Append(@, UserMessage(m.chatInput)),
                               !.chatInput = <<>>,
                               !.isLoading = TRUE],
                     "chatMessages")
          EXCEPT !.fetchCount = @ + 1, !.calls.fetch = @ + 1]

\* sendMessage() up to the await of fetch: lines 17-34
SendMessage(m) ==
    IF Trim(m.chatInput) = <<>> THEN m
    ELSE LET pushed == Invalidate([m EXCEPT !.chatMessages =
                                       Append(@, UserMessage(m.chatInput))],
                                  "chatMessages")
             cleared == Invalidate([pushed EXCEPT !.chatInput = <<>>], "chatInput")
             loading == IF cleared.isLoading THEN cleared
                        ELSE Invalidate([cleared EXCEPT !.isLoading = TRUE],
                                        "isLoading")
         IN  [loading EXCEPT !.fetchCount = @ + 1, !.calls.fetch = @ + 1]

\* isLoading = false: line 68
StopLoading(m) ==
    IF m.isLoading THEN Invalidate([m EXCEPT !.isLoading = FALSE], "isLoading") ELSE m

\* a catch that fetches again
CatchErrorRetries(m) ==
    [Invalidate([m EXCEPT !.chatMessages =
                     Append(@, AssistantMessage(ErrorText, FALSE))],
                "chatMessages")
     EXCEPT !.fetchCount = @ + 1, !.calls.fetch = @ + 1]

\* the outer catch: lines 65-67, then line 68
CatchError(m) ==
    StopLoading(Invalidate([m EXCEPT !.chatMessages =
                                Append(@, AssistantMessage(ErrorText, FALSE))],
                           "chatMessages"))

\* a setMapPins that adds to the list
SetMapPinsMerging(m, newPins) ==
    Invalidate([m EXCEPT !.mapPins = @ \o newPins], "mapPins")

\* setMapPins(newPins)
SetMapPins(m, newPins) == Invalidate([m EXCEPT !.mapPins = newPins], "mapPins")

\* the body of the response, as res.json() yields it: JSON null, an object
\* without candidates, or an object that carries a text
DataNull == [kind |-> "null", text |-> <<>>]
DataEmpty == [kind |-> "object", text |-> <<>>]
DataText(text) == [kind |-> "text", text |-> text]

\* data.candidates?.[0]?.content?.parts?.[0]?.text || '[No response]'
ResponseText(body) ==
    IF body.kind = "text" /\ body.text # <<>> THEN body.text ELSE NoResponseText

\* sendMessage() after res.json(), without the inner try: a payload that
\* throws reaches the outer catch after the narrative has been appended
HandleDataOneTry(m, body) ==
    IF body.kind = "null" THEN StopLoading(Invalidate([m EXCEPT !.chatMessages =
                                   Append(@, AssistantMessage(ErrorText, FALSE))],
                                   "chatMessages"))
    ELSE LET text == ResponseText(body)
             shown == Invalidate([m EXCEPT !.chatMessages =
                          Append(@, AssistantMessage(MarkdownPart(text), TRUE))],
                          "chatMessages")
             payload == PinsPayload(text)
             parsed == JSONParse(JsonText(text))
             thrown == JsonText(text) # <<>> /\
                       (~parsed.ok \/ (PayloadGuard(parsed) /\ MapThrows(parsed.items)))
         IN  StopLoading(IF payload.accepted
                         THEN Invalidate([shown EXCEPT !.mapPins = payload.pins],
                                         "mapPins")
                         ELSE IF thrown
                         THEN Invalidate([shown EXCEPT !.chatMessages =
                                   Append(@, AssistantMessage(ErrorText, FALSE))],
                                   "chatMessages")
                         ELSE shown)

\* sendMessage() after res.json() has resolved with body: lines 35-68
HandleData(m, body) ==
    IF body.kind = "null" THEN CatchError(m)
    ELSE LET text == ResponseText(body)
             shown == Invalidate([m EXCEPT !.chatMessages =
                          Append(@, AssistantMessage(MarkdownPart(text), TRUE))],
                          "chatMessages")
             payload == PinsPayload(text)
         IN  StopLoading(IF payload.accepted THEN SetMapPins(shown, payload.pins)
                         ELSE shown)

----------------------------------------------------------------------------
(* Inputs *)

Screens == {"home", "chat", "planner", "map"}

\* what the user may have typed into the chat input
Inputs == {<<>>, <<" ">>, <<"hi">>}

ObjA == "{lat:1,lng:2,label:A}"
ObjB == "{lat:3,lng:4,label:B}"

\* candidate payloads: the text between the fences
Payloads ==
    {<<"[", o, "]">> : o \in ObjectTokens} \cup
    {<<"[", ObjA, ",", ObjB, "]">>,
     <<"[", ObjB, ",", "{lat:0,lng:2,label:A}", "]">>,
     <<"[", "{lat:0,lng:2,label:A}", ",", ObjB, "]">>,
     <<"[", " ", ObjA, "\n", "]">>,
     <<"[", ObjA, ",", "{lat:0,lng:2,label:A}", "]">>,
     <<"[", "{latitude:1,longitude:2,name:A}", ",",
            "{latitude:0,longitude:2,name:A}", "]">>,
     <<"[", ObjA, ",", "null", "]">>,
     <<"[", "null", ",", ObjA, "]">>,
     <<"[", "7", "]">>,
     <<"[", "]">>,
     <<ObjA>>,
     <<"null">>,
     <<"[", ObjA>>,
     <<"[", ObjA, ",", "]">>,
     <<"Bye">>}

Block(payload) == <<Fence, Tag, "\n">> \o payload \o <<"\n", Fence>>

\* response texts without a fenced JSON block
PlainTexts ==
    {<<" ", "Hi", "\n">>,
     <<"Hi", "\n", Fence, "\n", "[", ObjA, "]", "\n", Fence>>,
     <<"Hi", "\n", Fence, Tag, "\n", "[", ObjA, "]">>}

\* response texts with one fenced JSON block, or two
BlockTexts ==
    {<<"Hi", "\n">> \o Block(p) : p \in Payloads} \cup
    {Block(<<"[", ObjB, "]">>),
     <<" ", "Hi", " ">> \o Block(<<"Bye">>) \o <<" ", "Bye", "\n">>,
     <<"Hi", "\n", Fence, Tag, "[", ObjB, "]", Fence>>,
     <<"Hi", "\n", Fence, Tag, "\n", Fence>>,
     <<"Hi", "\n">> \o Block(<<"[", ObjA, "]">>) \o <<"\n">> \o Block(<<"[", ObjB, "]">>),
     <<"Hi", "\n">> \o Block(<<"Bye">>) \o <<"\n">> \o Block(<<"[", ObjB, "]">>)}

Texts == PlainTexts \cup BlockTexts

\* every response body of the model
Datas == {DataNull, DataEmpty, DataText(<<>>)} \cup {DataText(t) : t \in Texts}

\* the bodies the server sends when the whole page is explored: two accepted
\* payloads, one the guard discards and one that is not JSON
PageDatas ==
    {DataText(<<"Hi", "\n">> \o Block(<<"[", ObjA, "]">>)),
     DataText(<<"Hi", "\n">> \o Block(<<"[", ObjB, ",", "{lat:0,lng:2,label:A}", "]">>)),
     DataText(<<"Hi", "\n">> \o Block(<<"[", "{lat:0,lng:2,label:A}", ",", ObjB, "]">>)),
     DataText(<<"Hi", "\n">> \o Block(<<"[", ObjA>>))}

----------------------------------------------------------------------------
(* The state after construction: the script block has run and every        *)
(* reactive statement has run once, on the home screen.                    *)

Init ==
    /\ currentScreen = "home"
    /\ chatInput = <<>>
    /\ chatMessages = <<>>
    /\ isLoading = FALSE
    /\ calls = [fetch |-> 0, json |-> 0]
    /\ fetchCount = 0
    /\ data = NoData
    /\ map = 0
    /\ mapElement = 0
    /\ mapPins = <<>>
    /\ mapMarkers = <<>>
    /\ mapInitialized = FALSE
    /\ maps = <<>>
    /\ attached = <<>>
    /\ mounts = 0
    /\ scripts = 0
    /\ scriptState = "none"
    /\ google = FALSE
    /\ gmapsLoaded = FALSE
    /\ listeners = 0
    /\ loadPending = FALSE
    /\ loaderCalls = 0
    /\ rejections = 0

----------------------------------------------------------------------------
(* Tasks *)

UserCount == Len(SelectSeq(chatMessages, LAMBDA msg : msg.role = "user"))

\* a click handler that also abandons the requests in flight
NavClickCancelling(m, s) ==
    RunQueue(Invalidate([m EXCEPT !.currentScreen = s,
                                  !.calls = [fetch |-> 0, json |-> 0],
                                  !.isLoading = FALSE],
                        "currentScreen"))

\* on:click={() => currentScreen = s} with s another screen, and the
\* microtasks that follow it
NavClick(m, s) ==
    RunQueue(Invalidate([m EXCEPT !.currentScreen = s], "currentScreen"))

\* a click on a nav button: currentScreen = s
Navigate(s) ==
    /\ (s = "map" /\ currentScreen # "map") => mounts < MaxMapEntries
    /\ IF s = currentScreen THEN UNCHANGED vars
       ELSE Commit(NavClick(Snapshot, s))

\* the user edits the chat input: bind:value
TypeInput(v) ==
    /\ currentScreen = "chat"
    /\ v # chatInput
    /\ Commit(RunQueue(Invalidate([Snapshot EXCEPT !.chatInput = v], "chatInput")))

\* the model's limits on a call of sendMessage that is to send something
WithinBounds(turns) ==
    Trim(chatInput) # <<>> =>
        UserCount < turns /\ calls.fetch + calls.json < MaxInFlight

\* a click on a Send button that stays enabled while isLoading
ClickSendWhileLoading(turns) ==
    /\ currentScreen = "chat"
    /\ Trim(chatInput) # <<>>
    /\ WithinBounds(turns)
    /\ Commit(RunQueue(SendMessage(Snapshot)))

\* a click on Send, which is disabled while isLoading and on blank input
ClickSend(turns) ==
    /\ currentScreen = "chat"
    /\ ~isLoading
    /\ Trim(chatInput) # <<>>
    /\ WithinBounds(turns)
    /\ Commit(RunQueue(SendMessage(Snapshot)))

\* a submit event that reaches the form without the button
SubmitEvent(turns) ==
    /\ currentScreen = "chat"
    /\ WithinBounds(turns)
    /\ Commit(RunQueue(SendMessage(Snapshot)))

\* fetch() rejects
FetchRejects ==
    /\ calls.fetch > 0
    /\ Commit(RunQueue(CatchError([Snapshot EXCEPT !.calls.fetch = @ - 1,
                                                   !.data = NoData])))

\* fetch() resolves with a response
FetchResolves ==
    /\ calls.fetch > 0
    /\ Commit([Snapshot EXCEPT !.calls.fetch = @ - 1, !.calls.json = @ + 1])

\* res.json() rejects: the body cannot be read or is not JSON
JsonRejects ==
    /\ calls.json > 0
    /\ Commit(RunQueue(CatchError([Snapshot EXCEPT !.calls.json = @ - 1,
                                                   !.data = NoData])))

\* res.json() resolves with body: const data = await res.json()
JsonResolves(body) ==
    /\ calls.json > 0
    /\ Commit(RunQueue(HandleData([Snapshot EXCEPT !.calls.json = @ - 1,
                                                   !.data = body],
                                  body)))

\* the load event of the injected script: script.onload sets the flag,
\* dispatches gmaps:loaded to the listeners and resolves its own promise
ScriptLoads(throws) ==
    /\ scriptState = "loading"
    /\ LET m == Snapshot
           woken == [k \in 1..(m.listeners + (IF m.loadPending THEN 1 ELSE 0))
                        |-> "continue"]
       IN  Commit(RunQueue([m EXCEPT !.scriptState = "loaded",
                                     !.google = TRUE,
                                     !.gmapsLoaded = TRUE,
                                     !.listeners = 0,
                                     !.loadPending = FALSE,
                                     !.nullNodeThrows = throws,
                                     !.queue = woken]))

\* the error event of the injected script: script.onerror = reject
ScriptFails ==
    /\ scriptState = "loading"
    /\ Commit([Snapshot EXCEPT !.scriptState = "failed",
                               !.loadPending = FALSE,
                               !.rejections = @ + (IF loadPending THEN 1 ELSE 0)])

Next ==
    \/ \E s \in Screens : Navigate(s)
    \/ \E v \in Inputs : TypeInput(v)
    \/ ClickSend(MaxPageTurns)
    \/ SubmitEvent(MaxPageTurns)
    \/ FetchRejects
    \/ FetchResolves
    \/ JsonRejects
    \/ \E body \in PageDatas : JsonResolves(body)
    \/ \E throws \in BOOLEAN : ScriptLoads(throws)
    \/ ScriptFails

\* the whole page
Spec == Init /\ [][Next]_vars

\* the whole page in a browser that settles the load of an injected script:
\* its error event or its load event is eventually delivered
ScriptSettles == ScriptFails \/ \E throws \in BOOLEAN : ScriptLoads(throws)

SpecLive == Init /\ [][Next]_vars /\ WF_vars(ScriptSettles)

\* the chat pane alone, with every response body of the model: the user opens
\* the chat screen and stays on it
NextChat ==
    \/ Navigate("chat")
    \/ \E v \in Inputs : TypeInput(v)
    \/ ClickSend(MaxTurns)
    \/ SubmitEvent(MaxTurns)
    \/ FetchRejects
    \/ FetchResolves
    \/ JsonRejects
    \/ \E body \in Datas : JsonResolves(body)

SpecChat == Init /\ [][NextChat]_vars

\* the chat pane alone when every submission comes through the Send button of
\* the form (or the Enter key, which submits only while that button is enabled)
NextForm ==
    \/ Navigate("chat")
    \/ \E v \in Inputs : TypeInput(v)
    \/ ClickSend(MaxTurns)
    \/ FetchRejects
    \/ FetchResolves
    \/ JsonRejects
    \/ \E body \in Datas : JsonResolves(body)

SpecForm == Init /\ [][NextForm]_vars

----------------------------------------------------------------------------
(* Properties *)

\* the markers updateMapPins attaches for a pin list on a map instance
MarkersFor(pins, mapId) == [k \in 1..Len(pins) |-> Marker(pins[k], mapId)]

MarkersMatchPins == mapMarkers = MarkersFor(mapPins, map) /\ attached = mapMarkers

EntersMap == currentScreen # "map" /\ currentScreen' = "map"

\* C1 as stated: once a map instance exists, switching away from the map
\* screen and back neither calls loadGoogleMaps again nor constructs a new map
\* instance.
C1_NoReload ==
    [][(EntersMap /\ map # 0 /\ maps[map] # 0) =>
          (loaderCalls' = loaderCalls /\ maps' = maps)]_vars

\* C1 amended: once a map instance has been created on the map screen, every
\* return to the map screen injects no script, but calls loadGoogleMaps again
\* and constructs a new map instance on the newly mounted node, sets
\* mapInitialized and attaches the markers of the current pin list to the new
\* instance.
C1_ReentryRebuilds ==
    [][(EntersMap /\ map # 0 /\ maps[map] # 0) =>
          /\ scripts' = scripts
          /\ loaderCalls' > loaderCalls
          /\ Len(maps') > Len(maps)
          /\ map' = Len(maps')
          /\ mapElement' = mounts' /\ mounts' = mounts + 1
          /\ maps'[map'] = mapElement'
          /\ mapInitialized'
          /\ MarkersMatchPins']_vars

\* C1 witness: the map screen has been left and entered again, and the
\* current instance sits on the second node while an earlier one sat on the first
C1_Witness ==
    /\ currentScreen = "map"
    /\ mounts = 2
    /\ map # 0 /\ maps[map] = 2
    /\ \E i \in 1..Len(maps) : maps[i] = 1

\* C2: the script element is injected at most once; a call of loadGoogleMaps
\* made while the script is loading injects nothing and constructs nothing but
\* is suspended on a gmaps:loaded listener, and the load event of the one
\* script resumes every suspended caller.
C2_SingleScript ==
    /\ [](scripts <= 1)
    /\ [][(scriptState = "loading" /\ loaderCalls' > loaderCalls) =>
             /\ scripts' = scripts
             /\ scriptState' = "loading"
             /\ listeners' = listeners + (loaderCalls' - loaderCalls)
             /\ maps' = maps]_vars
    /\ [][(scriptState = "loading" /\ scriptState' = "loaded") =>
             /\ scripts' = scripts
             /\ listeners' = 0 /\ ~loadPending'
             /\ (Len(maps') - Len(maps)) + (rejections' - rejections)
                    = listeners + (IF loadPending THEN 1 ELSE 0)]_vars

\* C2 witness: the script is loading and callers are suspended on listeners,
\* among them one from a second entry of the map screen
C2_Witness ==
    /\ scripts = 1 /\ scriptState = "loading"
    /\ mounts = 2
    /\ listeners >= 2

\* C3: whenever the pin list changes while the map screen is current and a map
\* instance exists, the attached markers are refreshed to the new pin list.
C3_MarkersFollowPins ==
    [][(currentScreen = "map" /\ map # 0 /\ mapPins' # mapPins) =>
          MarkersMatchPins']_vars

----------------------------------------------------------------------------
(* Properties of the chat pipeline *)

Last(seq) == seq[Len(seq)]

\* res.json() has resolved in this step; data' is what it resolved with
Replied == calls'.json < calls.json /\ data' # NoData

\* what surrounds the first block in the responses of the model
Prefixes == {<<>>, <<"Hi", "\n">>, <<" ", "Hi", " ">>}
Suffixes == {<<>>, <<" ", "Bye", "\n">>,
             <<"\n">> \o Block(<<"[", ObjB, "]">>)}

\* the JSON text of an array of the given elements
RECURSIVE Elements(_)
Elements(toks) ==
    IF Len(toks) = 0 THEN <<>>
    ELSE IF Len(toks) = 1 THEN toks
    ELSE <<Head(toks), ",">> \o Elements(Tail(toks))

ArrayText(toks) == <<"[">> \o Elements(toks) \o <<"]">>

\* object literals that carry lat, lng and label
FullRecords ==
    {o \in ObjectTokens :
        /\ ObjectOf(o).lat # Undefined
        /\ ObjectOf(o).lng # Undefined
        /\ ObjectOf(o).label # Undefined}

\* the pin the claim expects for such a record
CanonicalPin(o) ==
    [lat |-> ObjectOf(o).lat, lng |-> ObjectOf(o).lng, label |-> ObjectOf(o).label,
     icon |-> ObjectOf(o).icon, description |-> ObjectOf(o).description]

\* the responses of the model whose first block is an array of such records
RecordListCases ==
    {c \in {[data |-> DataText(r.pre \o Block(ArrayText(r.objs)) \o r.post),
             objs |-> r.objs,
             rest |-> r.pre \o r.post] :
                r \in [pre : Prefixes, post : Suffixes,
                       objs : {<<o>> : o \in FullRecords}
                                \cup (FullRecords \X FullRecords)]} :
        c.data \in Datas}

\* C4: a reply whose first fenced JSON block is an array of records that each
\* carry lat, lng and label (0 included among the coordinates) makes the pin
\* list exactly those records, in order, and appends the text without the
\* block (trimmed, as the splitter defines the narrative) to the transcript.
C4_RecordsBecomePins ==
    [][Replied =>
          \A c \in RecordListCases :
             data' = c.data =>
                /\ mapPins' = [k \in 1..Len(c.objs) |-> CanonicalPin(c.objs[k])]
                /\ chatMessages' =
                      Append(chatMessages, AssistantMessage(Trim(c.rest), TRUE))]_vars

\* payloads that are invalid JSON, are no array, or whose first element has
\* neither a latitude-like nor a longitude-like field
DiscardedPayloads ==
    {<<"[", ObjA>>, <<"[", ObjA, ",", "]">>, <<"Bye">>,
     <<ObjA>>, <<"null">>,
     <<"[", "{label:A}", "]">>, <<"[", "7", "]">>, <<"[", "]">>,
     <<"[", "null", ",", ObjA, "]">>}

DiscardCases ==
    {c \in {[data |-> DataText(r.pre \o Block(r.payload) \o r.post),
             rest |-> r.pre \o r.post] :
                r \in [pre : Prefixes, post : Suffixes, payload : DiscardedPayloads]} :
        c.data \in Datas}

\* C5 as stated: such a payload leaves the pin list unchanged and appends one
\* assistant message, which is the response text minus the fenced block.
C5_DiscardKeepsText ==
    [][Replied =>
          \A c \in DiscardCases :
             data' = c.data =>
                /\ mapPins' = mapPins
                /\ chatMessages' =
                      Append(chatMessages, AssistantMessage(c.rest, TRUE))]_vars

\* C5 amended: such a payload leaves the pin list unchanged and appends one
\* assistant message and no error message; the message is the response text
\* minus the fenced block with leading and trailing whitespace trimmed.
C5_DiscardKeepsTrimmedText ==
    [][Replied =>
          \A c \in DiscardCases :
             data' = c.data =>
                /\ mapPins' = mapPins
                /\ chatMessages' =
                      Append(chatMessages, AssistantMessage(Trim(c.rest), TRUE))]_vars

\* C5 witness: after an accepted payload, a reply with an invalid payload has
\* been shown without its block and the pins are still there
C5_Witness ==
    /\ Len(chatMessages) = 4
    /\ chatMessages[4] = AssistantMessage(<<"Hi", " ", " ", "Bye">>, TRUE)
    /\ mapPins # <<>>
    /\ ~isLoading

\* C6: a call of sendMessage with an empty or whitespace-only chat input makes
\* no network call, appends no message and leaves isLoading, the chat input
\* and the pin list unchanged.
C6_BlankSubmitIsNoOp ==
    [][(Trim(chatInput) = <<>> /\ SubmitEvent(MaxTurns)) =>
          UNCHANGED <<fetchCount, calls, chatMessages, isLoading, chatInput, mapPins>>]_vars

\* C6 witness: the chat input is whitespace only while a request is in
\* flight, where a submission returns at the guard of sendMessage
C6_Witness ==
    /\ chatInput = <<" ">>
    /\ isLoading /\ calls.fetch = 1
    /\ Len(chatMessages) = 1

\* C7: when fetch rejects or res.json() rejects, exactly one assistant message
\* with the fixed error text is appended, the pin list is unchanged, and no
\* further request is made: the call is over.
C7_FailureAppendsOneError ==
    [][(FetchRejects \/ JsonRejects) =>
          /\ chatMessages' = Append(chatMessages, AssistantMessage(ErrorText, FALSE))
          /\ mapPins' = mapPins
          /\ fetchCount' = fetchCount
          /\ calls'.fetch + calls'.json = calls.fetch + calls.json - 1]_vars

\* C7 witness: the second request has failed after the first had set pins
C7_Witness ==
    /\ Len(chatMessages) = 4
    /\ chatMessages[4] = AssistantMessage(ErrorText, FALSE)
    /\ mapPins # <<>>
    /\ fetchCount = 2
    /\ calls.fetch + calls.json = 0

Pending == calls.fetch + calls.json

CountRole(role) == Len(SelectSeq(chatMessages, LAMBDA msg : msg.role = role))

\* C8: the transcript only grows at its end; a step that starts a request
\* appends exactly the user's message, a step that settles a request appends
\* exactly one assistant message, and no other step touches the transcript,
\* so that user messages and requests, and assistant messages and settled
\* requests, correspond one to one.
C8_TranscriptAppendOnly ==
    /\ [][/\ Len(chatMessages') >= Len(chatMessages)
          /\ SubSeq(chatMessages', 1, Len(chatMessages)) = chatMessages
          /\ Pending' > Pending =>
                /\ Pending' = Pending + 1
                /\ Trim(chatInput) # <<>>
                /\ chatMessages' = Append(chatMessages, UserMessage(chatInput))
          /\ Pending' < Pending =>
                /\ Pending' = Pending - 1
                /\ Len(chatMessages') = Len(chatMessages) + 1
                /\ Last(chatMessages').role = "assistant"
          /\ Pending' = Pending => chatMessages' = chatMessages]_vars
    /\ [](/\ CountRole("user") = fetchCount
          /\ CountRole("assistant") = fetchCount - Pending)

\* C8 witness: two turns are over, one answered by a narrative and one by the
\* error message
C8_Witness ==
    /\ Len(chatMessages) = 4
    /\ chatMessages[1].role = "user" /\ chatMessages[3].role = "user"
    /\ chatMessages[2] = AssistantMessage(<<"Hi">>, TRUE)
    /\ chatMessages[4] = AssistantMessage(ErrorText, FALSE)
    /\ Pending = 0

\* the reply carries an accepted payload
Accepted(body) == body.kind # "null" /\ PinsPayload(ResponseText(body)).accepted

\* C9: the pin list changes only when a reply with an accepted payload
\* arrives, and then it becomes that payload's pins and nothing else; a reply
\* without a payload or with a discarded one leaves it as it was.
C9_PinsReplacedWholesale ==
    [][/\ mapPins' # mapPins => (Replied /\ Accepted(data'))
       /\ Replied =>
             mapPins' = IF Accepted(data') THEN PinsPayload(ResponseText(data')).pins
                        ELSE mapPins]_vars

\* C9 witness: the second turn's accepted payload, the one pin B, is the
\* whole pin list after a first turn
C9_Witness ==
    /\ Len(chatMessages) = 4
    /\ chatMessages[2] = AssistantMessage(<<"Hi">>, TRUE)
    /\ chatMessages[4] = AssistantMessage(<<>>, TRUE)
    /\ mapPins = <<CanonicalPin(ObjB)>>

\* the text holds no fence directly followed by json with a later fence
NoFencedBlock(text) ==
    ~\E i \in 1..Len(text), j \in 1..Len(text) :
        /\ j > i + 1
        /\ text[i] = Fence /\ text[i + 1] = Tag
        /\ text[j] = Fence

\* C10: for a response text without a fenced JSON block the assistant message
\* appended is the full text, untrimmed, and the pin list is unchanged.
C10_PlainTextKept ==
    [][(Replied /\ data'.kind # "null" /\ NoFencedBlock(ResponseText(data'))) =>
          /\ chatMessages' =
                Append(chatMessages, AssistantMessage(ResponseText(data'), TRUE))
          /\ mapPins' = mapPins]_vars

\* C10 witness: after a turn that set pins, a text without a block has been
\* appended whole, with its surrounding whitespace
C10_Witness ==
    /\ Len(chatMessages) = 4
    /\ chatMessages[4] = AssistantMessage(<<" ", "Hi", "\n">>, TRUE)
    /\ mapPins # <<>>
    /\ ~isLoading

----------------------------------------------------------------------------
(* Properties of the map pane after a failed script load *)

\* C12: once the script has failed to load it stays failed; in every later
\* state, whatever screens are entered and left, exactly the one script has
\* been injected, no map instance exists, mapInitialized is false and no
\* marker is attached; the failure itself changes nothing the user sees: no
\* message is appended and the screen, the input and the pins stay as they are.
C12_FailedLoadStaysBlank ==
    /\ [](scriptState = "failed" =>
             /\ scripts = 1
             /\ ~google /\ ~gmapsLoaded
             /\ maps = <<>> /\ map = 0
             /\ ~mapInitialized
             /\ mapMarkers = <<>> /\ attached = <<>>)
    /\ [][scriptState = "failed" => scriptState' = "failed"]_vars
    /\ [][(scriptState # "failed" /\ scriptState' = "failed") =>
             UNCHANGED <<currentScreen, chatMessages, chatInput, isLoading, mapPins,
                         mapElement>>]_vars

\* C12 witness: the script has failed, the map screen is shown on its second
\* node, and the callers of both entries are left waiting on their listeners
C12_Witness ==
    /\ scriptState = "failed"
    /\ currentScreen = "map"
    /\ mounts = 2
    /\ loaderCalls >= 3
    /\ listeners >= 2

----------------------------------------------------------------------------
(* Properties of the screen router *)

\* C14: in every reachable state a click on any nav button goes through: it
\* shows the screen clicked and leaves the transcript, the pin list, the chat
\* input, isLoading and the requests in flight as they are.  So every step
\* that changes the screen leaves them unchanged, and a request in flight
\* while another screen is shown still settles with its one assistant message.
C14_NavigationKeepsChat ==
    /\ [](\A s \in Screens \ {currentScreen} :
             LET clicked == NavClick(Snapshot, s)
             IN  /\ clicked.currentScreen = s
                 /\ clicked.chatMessages = chatMessages
                 /\ clicked.mapPins = mapPins
                 /\ clicked.chatInput = chatInput
                 /\ clicked.isLoading = isLoading
                 /\ clicked.calls = calls
                 /\ clicked.fetchCount = fetchCount)
    /\ [][currentScreen' # currentScreen =>
             UNCHANGED <<chatMessages, mapPins, chatInput, isLoading, calls,
                         fetchCount>>]_vars
    /\ [][(currentScreen # "chat" /\ Pending' < Pending) =>
             /\ currentScreen' = currentScreen
             /\ Len(chatMessages') = Len(chatMessages) + 1
             /\ Last(chatMessages').role = "assistant"]_vars

\* C14 witness: the user has left the chat screen for the map with a request
\* in flight and text typed into the input; all of it is still there
C14_Witness ==
    /\ currentScreen = "map"
    /\ calls.fetch + calls.json = 1
    /\ isLoading
    /\ chatInput = <<"hi">>
    /\ Len(chatMessages) = 1

\* C15: in every reachable state in which the current screen is not the map
\* screen, mapInitialized is false.
C15_ResetOffMap == [](currentScreen # "map" => ~mapInitialized)

\* C16: a task that constructs a map instance ends with the map screen
\* current and the map node bound, and every instance it has constructed sits
\* on that node; no instance is ever constructed on null.
C16_MapsOnBoundNode ==
    [][Len(maps') > Len(maps) =>
          /\ currentScreen' = "map"
          /\ mapElement' # 0
          /\ \A i \in (Len(maps) + 1)..Len(maps') : maps'[i] = mapElement']_vars

----------------------------------------------------------------------------
(* Properties of the marker refresh *)

\* C13: in every reachable state a call of updateMapPins with a map instance
\* present leaves attached exactly one marker per pin of the current list, in
\* order and on the current instance, and nothing else; without a map instance
\* it changes nothing.  Accordingly every task that has called it (it has built
\* an instance, entered the map screen with one present, or changed the
\* markers) ends with the markers matching the pin list, the attached markers
\* are always exactly the ones mapMarkers tracks, all on the current instance,
\* and none is attached while no instance exists.
C13_MarkerRefreshReplaces ==
    /\ [](LET called == UpdateMapPins(Snapshot)
          IN  IF map = 0
              THEN called = Snapshot
              ELSE /\ called.mapMarkers = MarkersFor(mapPins, map)
                   /\ called.attached = called.mapMarkers)
    /\ [](/\ attached = mapMarkers
          /\ \A k \in 1..Len(mapMarkers) : mapMarkers[k].map = map
          /\ map = 0 => mapMarkers = <<>>)
    /\ [][(\/ Len(maps') > Len(maps)
           \/ EntersMap /\ map # 0
           \/ mapMarkers' # mapMarkers
           \/ attached' # attached) => MarkersMatchPins']_vars

\* C13 witness: a second map instance carries the markers of a non-empty pin
\* list, and the markers that were attached to the first instance are gone
C13_Witness ==
    /\ Len(maps) >= 2 /\ map = Len(maps)
    /\ mapPins # <<>>
    /\ mapMarkers = MarkersFor(mapPins, map)
    /\ attached = mapMarkers

----------------------------------------------------------------------------
(* Properties of the splitter on responses with several blocks *)

\* the responses of the model with two fenced JSON blocks, each with the
\* response cut off after its first block and with what surrounds that block
TwoBlockCases ==
    {c \in {[data |-> DataText(r.pre \o Block(r.one) \o <<"\n">> \o Block(r.two)),
             first |-> DataText(r.pre \o Block(r.one)),
             rest |-> r.pre \o <<"\n">> \o Block(r.two)] :
                r \in [pre : Prefixes, one : Payloads, two : Payloads]} :
        c.data \in Datas}

\* C17: for a reply with two fenced JSON blocks the pin list is decided by the
\* first block alone, as for the reply cut off after it: set to its pins when
\* it is accepted, unchanged when it is discarded, whatever the second block
\* holds; the message appended is the text with the first block removed and
\* the second block still in it.
C17_FirstBlockOnly ==
    [][Replied =>
          \A c \in TwoBlockCases :
             data' = c.data =>
                /\ mapPins' = IF Accepted(c.first)
                              THEN PinsPayload(ResponseText(c.first)).pins
                              ELSE mapPins
                /\ chatMessages' =
                      Append(chatMessages, AssistantMessage(Trim(c.rest), TRUE))]_vars

\* C17 witness: a reply with the blocks [A] and [B] has set the one pin A and
\* its message still shows the block [B]
C17_Witness ==
    /\ data = DataText(<<"Hi", "\n">> \o Block(<<"[", ObjA, "]">>) \o <<"\n">>
                         \o Block(<<"[", ObjB, "]">>))
    /\ mapPins = <<CanonicalPin(ObjA)>>
    /\ Last(chatMessages) =
          AssistantMessage(<<"Hi", "\n", "\n">> \o Block(<<"[", ObjB, "]">>), TRUE)

----------------------------------------------------------------------------
(* Properties of the loading flag *)

\* C18: when every submission comes through the form's Send button, at most
\* one request is in flight and isLoading is true exactly while one is: a
\* submission is made with isLoading false and sets it, and the step that
\* settles the request, with a reply or with a failure, clears it.
C18_OneRequestAtATime ==
    /\ [](Pending <= 1 /\ (isLoading <=> Pending = 1))
    /\ [][/\ Pending' > Pending => (~isLoading /\ isLoading')
          /\ Pending' < Pending => (isLoading /\ ~isLoading')]_vars

\* C18 witness: the first request has failed and the second is in flight;
\* isLoading is set again and the text typed meanwhile cannot be sent
C18_Witness ==
    /\ Len(chatMessages) = 3
    /\ chatMessages[2] = AssistantMessage(ErrorText, FALSE)
    /\ Pending = 1 /\ isLoading
    /\ chatInput = <<"hi">>

----------------------------------------------------------------------------
(* Liveness of the map initialisation *)

MapReady == map # 0 /\ mapInitialized /\ MarkersMatchPins

\* C19: from a state in which the map screen is shown and the script has not
\* loaded yet, if the user stays on the map screen and the load does not fail,
\* a state is reached in which a map instance exists, mapInitialized is true
\* and the attached markers are those of the current pin list; and entering
\* the map screen when the script has already loaded reaches such a state in
\* the same task.
C19_MapBecomesReady ==
    /\ (currentScreen = "map" /\ scriptState # "loaded")
          ~> (MapReady \/ currentScreen # "map" \/ scriptState = "failed")
    /\ [][(EntersMap /\ scriptState = "loaded") => MapReady']_vars

\* C19 witness: on the first visit to the map screen the script has loaded;
\* the instance sits on the node and carries the markers of a non-empty list
C19_Witness ==
    /\ currentScreen = "map" /\ mounts = 1
    /\ scriptState = "loaded"
    /\ map # 0 /\ maps[map] = mapElement
    /\ mapInitialized
    /\ mapPins # <<>>
    /\ MarkersMatchPins

----------------------------------------------------------------------------
(* Properties of the field normalizer *)

\* records written with latitude, longitude and name only
LongRecords ==
    {o \in ObjectTokens :
        /\ ObjectOf(o).lat = Undefined /\ ObjectOf(o).lng = Undefined
        /\ ObjectOf(o).label = Undefined
        /\ ObjectOf(o).latitude # Undefined /\ ObjectOf(o).longitude # Undefined
        /\ ObjectOf(o).name # Undefined}

\* the literals that carry the same values under lat, lng and label
TwinsOf(o) ==
    {t \in ObjectTokens :
        ObjectOf(t) = Short(ObjectOf(o).latitude, ObjectOf(o).longitude,
                            ObjectOf(o).name)}

TwinOf(o) == CHOOSE t \in TwinsOf(o) : TRUE

\* the responses of the model whose block is an array of such records, each
\* with the response that carries the same array in the other spelling
KeyFormCases ==
    {c \in {[long |-> DataText(<<"Hi", "\n">> \o Block(ArrayText(objs))),
             short |-> DataText(<<"Hi", "\n">> \o
                          Block(ArrayText([k \in 1..Len(objs) |-> TwinOf(objs[k])])))] :
                objs \in {<<o>> : o \in LongRecords} \cup (LongRecords \X LongRecords)} :
        c.long \in Datas /\ c.short \in Datas}

\* C11: a reply whose array is written with latitude, longitude and name has
\* the outcome of the reply with the same values written with lat, lng and
\* label: the same decision to accept or discard and, when accepted, the same
\* pin list.
C11_KeyFormsAgree ==
    [][Replied =>
          \A c \in KeyFormCases :
             data' = c.long =>
                /\ Accepted(c.long) = Accepted(c.short)
                /\ mapPins' = IF Accepted(c.short)
                              THEN PinsPayload(ResponseText(c.short)).pins
                              ELSE mapPins]_vars

\* C11 witness: a reply written with latitude, longitude and name has been
\* accepted and the pins are those of its twin, a zero latitude among them
C11_Witness ==
    /\ data = DataText(<<"Hi", "\n">> \o
                  Block(<<"[", "{latitude:1,longitude:2,name:A}", ",",
                               "{latitude:0,longitude:2,name:A}", "]">>))
    /\ mapPins = <<CanonicalPin(ObjA), CanonicalPin("{lat:0,lng:2,label:A}")>>

====
